---- MODULE Spec2Model ----
(***************************************************************************)
(* A model of cb (clipboard-go, src/main.go): run a child command, capture *)
(* its output, transform it, persist a timestamped Record to a file,       *)
(* publish the text to the clipboard through a helper program and echo it  *)
(* to the terminal.                                                        *)
(*                                                                         *)
(* Text is a sequence of one-character strings; NL is the line separator   *)
(* and ESC stands for the byte 0x1b.                                       *)
(***************************************************************************)
EXTENDS Integers, Sequences, FiniteSets, TLC

VARIABLES
  argv,        \* os.Args[1:], the command line handed to flag.Parse
  config,      \* the Config snapshot filled by parseFlags
  args,        \* flag.Args(): the child command and its arguments
  pc,          \* position of main
  child,       \* how the child command behaves when it is run
  output,      \* main's local `output`
  fullOutput,  \* main's local `fullOutput` (the Record)
  fs,          \* the files: path -> [exists, data]
  before,      \* fs as it was when the process started
  clipboard,   \* the text the system clipboard holds
  echo,        \* what main printed of the output on stdout
  diag,        \* the verbose status lines printed on stdout
  errs,        \* the lines printed on stderr
  exitCode,    \* the exit status, -1 while running
  calls,       \* the external operations performed by this process, in order
  now,         \* the wall clock, one tick per process
  runs         \* the number of processes started so far

vars == <<argv, config, args, pc, child, output, fullOutput, fs, before,
          clipboard, echo, diag, errs, exitCode, calls, now, runs>>

----------------------------------------------------------------------------
(* Bounds of the model *)

\* longest child output, in characters
MaxLen == 3
\* largest head / tail / quiet line count of a run
MaxCount == 1
\* longest text given to the line filters on their own
MaxFilterLen == 5
\* largest head / tail count given to the line filters on their own
MaxFilterCount == 4
\* processes run one after the other on the same files
MaxRuns == 2
\* most characters a failing write has written
MaxShort == 1
\* longest command line
MaxArgs == 4

----------------------------------------------------------------------------
(* Text *)

NL == "\n"
ESC == "ESC"

Digits == {"0", "1", "2", "3", "4", "5", "6", "7", "8", "9"}
Letters == {"a", "b", "e", "m", "x", "z"}
Spaces == {" ", "\t", "\n", "\r"}

SeqsUpTo(S, n) == UNION {[1..k -> S] : k \in 0..n}

\* the index of the first sep in s at or after i, Len(s)+1 when there is none
RECURSIVE IndexFrom(_, _, _)
IndexFrom(s, sep, i) ==
  IF i > Len(s) THEN Len(s) + 1
  ELSE IF s[i] = sep THEN i
  ELSE IndexFrom(s, sep, i + 1)

\* strings.Split(s, sep) for a one-character sep: always at least one element
RECURSIVE Split(_, _)
Split(s, sep) ==
  LET i == IndexFrom(s, sep, 1)
  IN  IF i > Len(s) THEN <<s>>
      ELSE <<SubSeq(s, 1, i - 1)>> \o Split(SubSeq(s, i + 1, Len(s)), sep)

\* strings.Join(elems, sep) for a one-character sep
RECURSIVE Join(_, _)
Join(elems, sep) ==
  IF Len(elems) = 0 THEN <<>>
  ELSE IF Len(elems) = 1 THEN elems[1]
  ELSE elems[1] \o <<sep>> \o Join(Tail(elems), sep)

\* strings.HasSuffix(s, "\n")
HasSuffixNL(s) == Len(s) > 0 /\ s[Len(s)] = NL

\* strings.Count(s, "\n")
CountNL(s) == Cardinality({i \in 1..Len(s) : s[i] = NL})

\* the end of the run of [0-9;] that starts at i
RECURSIVE SkipParams(_, _)
SkipParams(s, i) ==
  IF i <= Len(s) /\ s[i] \in Digits \cup {";"} THEN SkipParams(s, i + 1) ELSE i

\* the index after the match of \x1b\[[0-9;]*[a-zA-Z] that starts at i, 0 if none
MatchANSI(s, i) ==
  IF i + 1 <= Len(s) /\ s[i] = ESC /\ s[i + 1] = "["
  THEN LET j == SkipParams(s, i + 2)
       IN  IF j <= Len(s) /\ s[j] \in Letters THEN j + 1 ELSE 0
  ELSE 0

RECURSIVE StripFrom(_, _)
StripFrom(s, i) ==
  IF i > Len(s) THEN <<>>
  ELSE LET e == MatchANSI(s, i)
       IN  IF e > 0 THEN StripFrom(s, e) ELSE <<s[i]>> \o StripFrom(s, i + 1)

stripANSI(input) == StripFrom(input, 1)

\* strings.TrimSpace
RECURSIVE TrimLeft(_)
TrimLeft(s) == IF Len(s) > 0 /\ s[1] \in Spaces THEN TrimLeft(Tail(s)) ELSE s

RECURSIVE TrimRight(_)
TrimRight(s) ==
  IF Len(s) > 0 /\ s[Len(s)] \in Spaces THEN TrimRight(SubSeq(s, 1, Len(s) - 1)) ELSE s

TrimSpace(s) == TrimRight(TrimLeft(s))

\* a mutant of applyLineFilters: the tail is taken before the head
applyLineFilters_TailFirst(text, headLines, tailLines) ==
  IF headLines <= 0 /\ tailLines <= 0 THEN text
  ELSE LET all == Split(text, NL)
           lines == IF tailLines > 0 /\ tailLines < Len(all)
                    THEN SubSeq(all, Len(all) - tailLines + 1, Len(all)) ELSE all
           kept == IF headLines > 0 /\ headLines < Len(lines)
                   THEN SubSeq(lines, 1, headLines) ELSE lines
       IN  Join(kept, NL)

applyLineFilters(text, headLines, tailLines) ==
  IF headLines <= 0 /\ tailLines <= 0 THEN text
  ELSE LET all == Split(text, NL)
           lines == IF headLines > 0 /\ headLines < Len(all)
                    THEN SubSeq(all, 1, headLines) ELSE all
           kept == IF tailLines > 0 /\ tailLines < Len(lines)
                   THEN SubSeq(lines, Len(lines) - tailLines + 1, Len(lines))
                   ELSE lines
       IN  Join(kept, NL)

\* a mutant of limitLines: one line too many is kept
limitLines_OffByOne(text, maxLines) ==
  IF maxLines <= 0 THEN text
  ELSE LET lines == Split(text, NL)
       IN  IF Len(lines) <= maxLines + 1 THEN text
           ELSE Join(SubSeq(lines, 1, maxLines + 1), NL)

limitLines(text, maxLines) ==
  IF maxLines <= 0 THEN text
  ELSE LET lines == Split(text, NL)
       IN  IF Len(lines) <= maxLines THEN text
           ELSE Join(SubSeq(lines, 1, maxLines), NL)

----------------------------------------------------------------------------
(* Configuration *)

DefaultFile == "/tmp/cb.txt"
OtherFile == "out.txt"
Paths == {DefaultFile, OtherFile}

DefaultConfig ==
  [headLines |-> 0, tailLines |-> 0, quietLines |-> 0, quiet |-> FALSE,
   file |-> "", clear |-> FALSE, stderr |-> FALSE, append |-> FALSE,
   noClipboard |-> FALSE, verbose |-> FALSE, noTemp |-> FALSE, raw |-> FALSE,
   delay |-> 0, trim |-> FALSE, help |-> FALSE, showVersion |-> FALSE]

\* a -q setting parseFlags can leave: unset, -q, or -q=N
QuietOk(c) == c.quietLines > 0 => c.quiet

\* every setting of the flags that decide which steps run and how they end;
\* the flags that only shape the text, other than -q, keep their defaults
FlowConfigs ==
  {c \in [headLines : {0}, tailLines : {0}, quietLines : 0..MaxCount,
          quiet : BOOLEAN, file : {"", OtherFile}, clear : BOOLEAN,
          stderr : BOOLEAN, append : BOOLEAN, noClipboard : BOOLEAN,
          verbose : BOOLEAN, noTemp : BOOLEAN, raw : {FALSE}, delay : {0, 1},
          trim : {FALSE}, help : {FALSE}, showVersion : {FALSE}] : QuietOk(c)}

\* every setting of the flags that shape the text, with each output stage
\* on or off
TextConfigs ==
  {c \in [headLines : 0..MaxCount, tailLines : 0..MaxCount,
          quietLines : 0..MaxCount, quiet : BOOLEAN, file : {""},
          clear : {FALSE}, stderr : {FALSE}, append : {FALSE},
          noClipboard : BOOLEAN, verbose : {FALSE}, noTemp : BOOLEAN,
          raw : BOOLEAN, delay : {0}, trim : BOOLEAN, help : {FALSE},
          showVersion : {FALSE}] : QuietOk(c)}

\* the settings that end main before the command is looked at
EarlyConfigs ==
  {[DefaultConfig EXCEPT !.help = TRUE],
   [DefaultConfig EXCEPT !.showVersion = TRUE],
   [DefaultConfig EXCEPT !.help = TRUE, !.showVersion = TRUE]}

\* a child command
Command == <<"echo", "x">>

----------------------------------------------------------------------------
(* The command line: flag.Parse over the flags parseFlags defines *)

\* the elements of a command line: -name, -name=value, or a plain word
Flag(name) == [dash |-> TRUE, name |-> name, hasValue |-> FALSE, value |-> ""]
FlagEq(name, value) == [dash |-> TRUE, name |-> name, hasValue |-> TRUE, value |-> value]
Word(w) == [dash |-> FALSE, name |-> w, hasValue |-> FALSE, value |-> ""]

\* the element as the string it is on the command line
Text(tok) ==
  IF ~tok.dash THEN tok.name
  ELSE IF tok.hasValue THEN "-" \o tok.name \o "=" \o tok.value
  ELSE "-" \o tok.name

\* the decimal integers of the model, as fmt.Sscanf("%d") reads them
IntWords == <<"1", "2", "3">>
IsInt(v) == \E i \in 1..Len(IntWords) : IntWords[i] = v
IntOf(v) == CHOOSE i \in 1..Len(IntWords) : IntWords[i] = v

\* the flags defined with flag.BoolVar, flag.IntVar and flag.StringVar
BoolFlags ==
  {"c", "clear", "e", "error", "a", "append", "n", "v", "verbose", "no-temp",
   "r", "raw", "trim", "help", "version"}
IntFlags == {"h", "t", "delay"}
StringFlags == {"f"}

\* the flags that need no value: the boolean ones, and -q, whose
\* quietFlag.IsBoolFlag returns true
IsBoolFlag(name) == name \in BoolFlags \cup {"q"}

\* quietFlag.Set
quietSet(c, value) ==
  IF value = "" \/ value = "true"
  THEN [ok |-> TRUE, config |-> [c EXCEPT !.quiet = TRUE, !.quietLines = 0]]
  ELSE IF IsInt(value)
  THEN [ok |-> TRUE, config |-> [c EXCEPT !.quiet = TRUE, !.quietLines = IntOf(value)]]
  ELSE [ok |-> FALSE, config |-> [c EXCEPT !.quiet = TRUE]]

\* the field a boolean flag sets
BoolField(c, name, b) ==
  IF name \in {"c", "clear"} THEN [c EXCEPT !.clear = b]
  ELSE IF name \in {"e", "error"} THEN [c EXCEPT !.stderr = b]
  ELSE IF name \in {"a", "append"} THEN [c EXCEPT !.append = b]
  ELSE IF name = "n" THEN [c EXCEPT !.noClipboard = b]
  ELSE IF name \in {"v", "verbose"} THEN [c EXCEPT !.verbose = b]
  ELSE IF name = "no-temp" THEN [c EXCEPT !.noTemp = b]
  ELSE IF name \in {"r", "raw"} THEN [c EXCEPT !.raw = b]
  ELSE IF name = "trim" THEN [c EXCEPT !.trim = b]
  ELSE IF name = "help" THEN [c EXCEPT !.help = b]
  ELSE [c EXCEPT !.showVersion = b]

\* Value.Set of the flag `name`
flagSet(c, name, value) ==
  IF name = "q" THEN quietSet(c, value)
  ELSE IF name \in BoolFlags
  THEN IF value \in {"true", "false"}
       THEN [ok |-> TRUE, config |-> BoolField(c, name, value = "true")]
       ELSE [ok |-> FALSE, config |-> c]
  ELSE IF name \in IntFlags
  THEN IF ~IsInt(value) THEN [ok |-> FALSE, config |-> c]
       ELSE IF name = "h" THEN [ok |-> TRUE, config |-> [c EXCEPT !.headLines = IntOf(value)]]
       ELSE IF name = "t" THEN [ok |-> TRUE, config |-> [c EXCEPT !.tailLines = IntOf(value)]]
       ELSE [ok |-> TRUE, config |-> [c EXCEPT !.delay = IntOf(value)]]
  ELSE [ok |-> TRUE, config |-> [c EXCEPT !.file = value]]

\* flag.Parse: take the flags from the front of the command line up to the
\* first element that is not one; the rest is flag.Args(). failed: a bad
\* flag, after which flag.Parse exits with status 2.
RECURSIVE parseFlags(_, _)
parseFlags(c, line) ==
  IF Len(line) = 0 \/ ~line[1].dash
  THEN [config |-> c, args |-> line, failed |-> FALSE]
  ELSE LET tok == line[1]
           rest == Tail(line)
           bad == [config |-> c, args |-> rest, failed |-> TRUE]
       IN  IF tok.name \notin BoolFlags \cup IntFlags \cup StringFlags \cup {"q"}
           THEN bad
           ELSE IF IsBoolFlag(tok.name)
           THEN LET r == flagSet(c, tok.name, IF tok.hasValue THEN tok.value ELSE "true")
                IN  IF r.ok THEN parseFlags(r.config, rest) ELSE bad
           ELSE IF tok.hasValue
           THEN LET r == flagSet(c, tok.name, tok.value)
                IN  IF r.ok THEN parseFlags(r.config, rest) ELSE bad
           ELSE IF Len(rest) = 0 THEN bad
           ELSE LET r == flagSet(c, tok.name, Text(rest[1]))
                IN  IF r.ok THEN parseFlags(r.config, Tail(rest)) ELSE bad

----------
(* The environment: the child process, the file system, the helpers *)

NoChild == [spawn |-> FALSE, code |-> 0, out |-> <<>>, err |-> <<>>]

\* what a child writes on its output: every text over a and newline, one
\* text with an escape sequence and one with surrounding blanks
ChildTexts ==
  SeqsUpTo({"a", NL}, MaxLen)
    \cup {<<ESC, "[", "1", "m", "a", NL, "b">>, <<" ", "a", NL, "b", NL>>}

\* children that succeed, one for each text
TextChildren == [spawn : {TRUE}, code : {0}, out : ChildTexts, err : {<<>>}]

\* children of every kind: one that cannot be spawned, and ones that exit
\* 0 or 1 having written nothing or something on each stream
FlowChildren ==
  {NoChild}
    \cup [spawn : {TRUE}, code : {0, 1}, out : {<<>>, <<"a", NL, "a">>},
          err : {<<>>, <<"e", NL>>}]

NoFile == [exists |-> FALSE, data |-> <<>>]
File(data) == [exists |-> TRUE, data |-> data]

\* what the clipboard holds before any run
OldClip == <<"z">>

Tools == {"wl-copy", "xclip", "xsel"}

\* an external operation: what was called, on what, with which data, and
\* whether it succeeded
Call(op, what, data, ok) == [op |-> op, what |-> what, data |-> data, ok |-> ok]

\* a mutant of executeCommand: the error of cmd.Run() is dropped in both modes
executeCommand_DropsError(ch, captureStderr) ==
  LET stdout == IF ~ch.spawn THEN <<>>
                ELSE IF captureStderr THEN ch.out \o ch.err ELSE ch.out
  IN  [out |-> stdout, failed |-> FALSE]

\* cmd.Run() of the child and what executeCommand returns for it: the captured
\* buffer, and whether it returns an error
executeCommand(ch, captureStderr) ==
  LET stdout == IF ~ch.spawn THEN <<>>
                ELSE IF captureStderr THEN ch.out \o ch.err ELSE ch.out
      runErr == ~ch.spawn \/ ch.code # 0
  IN  IF runErr
      THEN IF captureStderr THEN [out |-> stdout, failed |-> FALSE]
           ELSE [out |-> stdout, failed |-> TRUE]
      ELSE [out |-> stdout, failed |-> FALSE]

\* the tool detectClipboardTool returns when `installed` are on the search
\* path, "" when none is
detectClipboardTool(installed) ==
  IF "wl-copy" \in installed THEN "wl-copy"
  ELSE IF "xclip" \in installed THEN "xclip"
  ELSE IF "xsel" \in installed THEN "xsel"
  ELSE ""

\* the exec.LookPath calls detectClipboardTool makes
detectCalls(installed) ==
  LET probes == <<"wl-copy", "xclip", "xsel">>
      found == detectClipboardTool(installed)
      n == IF found = "wl-copy" THEN 1 ELSE IF found = "xclip" THEN 2 ELSE 3
  IN  [i \in 1..n |-> Call("LookPath", probes[i], <<>>, probes[i] = found)]

\* the arguments the tool is run with
toolArgs(tool) ==
  IF tool = "wl-copy" THEN <<>>
  ELSE IF tool = "xclip" THEN <<"-selection", "clipboard">>
  ELSE <<"--clipboard", "--input">>

\* a mutant of writeToFile: append mode truncates the file too
writeToFile_Truncates(f, path, content, appendMode, fault, n) ==
  LET mk == Call("MkdirAll", path, <<>>, fault # "mkdir")
      op == Call("OpenFile", path, <<>>, fault # "open")
      wr == Call("WriteString", path, content, fault # "write")
  IN  IF fault = "mkdir" THEN [fs |-> f, calls |-> <<mk>>, failed |-> TRUE]
      ELSE IF fault = "open" THEN [fs |-> f, calls |-> <<mk, op>>, failed |-> TRUE]
      ELSE IF fault = "write"
      THEN [fs |-> [f EXCEPT ![path] = File(SubSeq(content, 1, n))],
            calls |-> <<mk, op, wr>>, failed |-> TRUE]
      ELSE [fs |-> [f EXCEPT ![path] = File(content)],
            calls |-> <<mk, op, wr>>, failed |-> FALSE]

\* writeToFile on the files f. fault names the call that fails ("none",
\* "mkdir", "open" or "write"); a failed write has written n characters.
\* Returns the files, the calls made and whether an error is returned.
writeToFile(f, path, content, appendMode, fault, n) ==
  LET mk == Call("MkdirAll", path, <<>>, fault # "mkdir")
      op == Call("OpenFile", path, <<>>, fault # "open")
      wr == Call("WriteString", path, content, fault # "write")
      old == IF appendMode THEN f[path].data ELSE <<>>
  IN  IF fault = "mkdir" THEN [fs |-> f, calls |-> <<mk>>, failed |-> TRUE]
      ELSE IF fault = "open" THEN [fs |-> f, calls |-> <<mk, op>>, failed |-> TRUE]
      ELSE IF fault = "write"
      THEN [fs |-> [f EXCEPT ![path] = File(old \o SubSeq(content, 1, n))],
            calls |-> <<mk, op, wr>>, failed |-> TRUE]
      ELSE [fs |-> [f EXCEPT ![path] = File(old \o content)],
            calls |-> <<mk, op, wr>>, failed |-> FALSE]

\* time.Now().Format(...) at clock value t
Timestamp(t) == ToString(t)

\* fmt.Sprintf("[%s \"%s\"]:\n", timestamp, strings.Join(args, " "))
Header(t, as) ==
  <<"[", Timestamp(t), " ", "\"">> \o Join([i \in 1..Len(as) |-> <<as[i]>>], " ")
    \o <<"\"", "]", ":", NL>>

\* the strip, trim and head/tail steps of main
Transform(text, c) ==
  LET stripped == IF c.raw THEN text ELSE stripANSI(text)
      trimmed == IF c.trim THEN TrimSpace(stripped) ELSE stripped
  IN  applyLineFilters(trimmed, c.headLines, c.tailLines)

\* the file main writes to
TargetFile(c) == IF c.file = "" THEN DefaultFile ELSE c.file

\* what main passes to fmt.Print
PrintText(text, c) ==
  IF c.quietLines > 0 THEN limitLines(text, c.quietLines) ELSE text

\* fmt.Print(printOutput), and fmt.Println() when it lacks the newline
Printed(printOutput) ==
  IF printOutput = <<>> THEN <<>>
  ELSE IF HasSuffixNL(printOutput) THEN printOutput
  ELSE printOutput \o <<NL>>

----------------------------------------------------------------------------
(* main, one action per step *)

\* os.Exit(n), or the return from main
Exit(n) == pc' = "exit" /\ exitCode' = n

Goto(p) == pc' = p /\ exitCode' = exitCode

\* a mutant of ClipboardStep: -n is not looked at
ClipboardStep_IgnoresN(c) == IF c.clear THEN "clear" ELSE "publish"

\* the step that follows the file step
ClipboardStep(c) ==
  IF c.noClipboard THEN "print" ELSE IF c.clear THEN "clear" ELSE "publish"

\* a mutant of WriteError: the error is reported and main goes on
WriteError_GoesOn ==
  /\ errs' = Append(errs, "Error writing to file")
  /\ Goto(ClipboardStep(config))

\* main when writeToFile returns an error: report it and exit 1
WriteError ==
  /\ errs' = Append(errs, "Error writing to file")
  /\ Exit(1)

\* a mutant of ClearResult: an error of clearClipboard ends the run
ClearResult_Fatal(failed) ==
  IF failed
  THEN errs' = Append(errs, "Warning: could not clear clipboard") /\ Exit(1)
  ELSE errs' = errs /\ Goto("publish")

\* main when clearClipboard returns: warn about an error if verbose, and go
\* on to the publish either way
ClearResult(failed) ==
  /\ errs' = IF failed /\ config.verbose
             THEN Append(errs, "Warning: could not clear clipboard")
             ELSE errs
  /\ Goto("publish")

\* a mutant of PublishError: the file is put back as it was before the run
PublishError_RestoresFile ==
  /\ errs' = Append(errs, "Error copying to clipboard")
  /\ fs' = before
  /\ Exit(1)

\* main when copyToClipboard returns an error: report it and exit 1; the
\* file stays as written
PublishError ==
  /\ errs' = Append(errs, "Error copying to clipboard")
  /\ fs' = fs
  /\ Exit(1)

\* --help: print the usage and exit 0
Help ==
  /\ pc = "main"
  /\ config.help
  /\ diag' = Append(diag, <<"usage">>)
  /\ Exit(0)
  /\ UNCHANGED <<argv, config, args, child, output, fullOutput, fs, before,
                 clipboard, echo, errs, calls, now, runs>>

\* --version: print the version and exit 0
Version ==
  /\ pc = "main"
  /\ ~config.help /\ config.showVersion
  /\ diag' = Append(diag, <<"cb version">>)
  /\ Exit(0)
  /\ UNCHANGED <<argv, config, args, child, output, fullOutput, fs, before,
                 clipboard, echo, errs, calls, now, runs>>

\* no command: report, print the usage and exit 1
NoCommand ==
  /\ pc = "main"
  /\ ~config.help /\ ~config.showVersion
  /\ Len(args) = 0
  /\ errs' = Append(errs, "Error: no command specified")
  /\ diag' = Append(diag, <<"usage">>)
  /\ Exit(1)
  /\ UNCHANGED <<argv, config, args, child, output, fullOutput, fs, before,
                 clipboard, echo, calls, now, runs>>

\* run the child and capture its output; an error returned is fatal
Execute ==
  /\ pc = "main"
  /\ ~config.help /\ ~config.showVersion
  /\ Len(args) > 0
  /\ LET r == executeCommand(child, config.stderr)
     IN  /\ calls' = Append(calls, Call("exec", args[1], <<>>, child.spawn /\ child.code = 0))
         /\ output' = r.out
         /\ IF r.failed
            THEN errs' = Append(errs, "Error executing command") /\ Exit(1)
            ELSE errs' = errs /\ Goto("prepare")
  /\ UNCHANGED <<argv, config, args, child, fullOutput, fs, before, clipboard,
                 echo, diag, now, runs>>

\* the delay, the transform chain and the Record
Prepare ==
  /\ pc = "prepare"
  /\ diag' = IF config.delay > 0 /\ config.verbose
             THEN Append(diag, <<"Waiting", config.delay>>) ELSE diag
  /\ calls' = IF config.delay > 0
              THEN Append(calls, Call("Sleep", ToString(config.delay), <<>>, TRUE))
              ELSE calls
  /\ output' = Transform(output, config)
  /\ fullOutput' = Header(now, args) \o output' \o <<NL>>
  /\ Goto("persist")
  /\ UNCHANGED <<argv, config, args, child, fs, before, clipboard, echo, errs,
                 now, runs>>

\* write the Record to the file unless --no-temp; an error is fatal
Persist ==
  /\ pc = "persist"
  /\ IF config.noTemp
     THEN /\ Goto(ClipboardStep(config))
          /\ UNCHANGED <<fs, calls, errs, diag>>
     ELSE \E fault \in {"none", "mkdir", "open", "write"} :
          \E n \in IF fault = "write" THEN 0..MaxShort ELSE {0} :
            LET w == writeToFile(fs, TargetFile(config), fullOutput,
                                 config.append, fault, n)
            IN  /\ fs' = w.fs
                /\ calls' = calls \o w.calls
                /\ IF w.failed
                   THEN /\ WriteError
                        /\ diag' = diag
                   ELSE /\ errs' = errs
                        /\ diag' = IF config.verbose
                                   THEN Append(diag, <<"Output written to", TargetFile(config)>>)
                                   ELSE diag
                        /\ Goto(ClipboardStep(config))
  /\ UNCHANGED <<argv, config, args, child, output, fullOutput, before,
                 clipboard, echo, now, runs>>

\* -c: run the helper on an empty input; an error is only reported, and only
\* when verbose
Clear ==
  /\ pc = "clear"
  /\ \E installed \in SUBSET Tools, ok \in BOOLEAN :
       LET tool == detectClipboardTool(installed)
           failed == tool = "" \/ ~ok
       IN  /\ calls' = calls \o detectCalls(installed)
                         \o (IF tool = "" THEN <<>> ELSE <<Call("clear", tool, <<>>, ok)>>)
           /\ clipboard' = IF failed THEN clipboard ELSE <<>>
           /\ ClearResult(failed)
  /\ UNCHANGED <<argv, config, args, child, output, fullOutput, fs, before,
                 echo, diag, now, runs>>

\* stream the text to the helper; no helper or a failing helper is fatal
Publish ==
  /\ pc = "publish"
  /\ \E installed \in SUBSET Tools, ok \in BOOLEAN :
       LET tool == detectClipboardTool(installed)
           failed == tool = "" \/ ~ok
       IN  /\ calls' = calls \o detectCalls(installed)
                         \o (IF tool = "" THEN <<>> ELSE <<Call("publish", tool, output, ok)>>)
           /\ clipboard' = IF failed THEN clipboard ELSE output
           /\ IF failed
              THEN /\ PublishError
                   /\ diag' = diag
              ELSE /\ errs' = errs
                   /\ fs' = fs
                   /\ diag' = IF config.verbose
                              THEN Append(diag, <<"Copied lines", CountNL(output) + 1>>)
                              ELSE diag
                   /\ Goto("print")
  /\ UNCHANGED <<argv, config, args, child, output, fullOutput, before, echo,
                 now, runs>>

\* echo the text, or its first quietLines lines, unless fully quiet
PrintOutput ==
  /\ pc = "print"
  /\ echo' = IF config.quiet /\ config.quietLines = 0 THEN echo
             ELSE echo \o Printed(PrintText(output, config))
  /\ Exit(0)
  /\ UNCHANGED <<argv, config, args, child, output, fullOutput, fs, before,
                 clipboard, diag, errs, calls, now, runs>>

----------------------------------------------------------------------------
(* One process, from any configuration *)

\* the files before the first run: absent, or left by something else
OldFiles == {[p \in Paths |-> NoFile], [p \in Paths |-> File(<<"o", NL>>)]}

Fresh ==
  /\ argv = <<>>
  /\ pc = "main"
  /\ output = <<>>
  /\ fullOutput = <<>>
  /\ clipboard = OldClip
  /\ echo = <<>>
  /\ diag = <<>>
  /\ errs = <<>>
  /\ exitCode = -1
  /\ calls = <<>>
  /\ now = 1
  /\ runs = 1

Init ==
  /\ Fresh
  /\ \/ config \in FlowConfigs /\ args = Command /\ child \in FlowChildren
     \/ config \in TextConfigs /\ args = Command /\ child \in TextChildren
     \/ config \in EarlyConfigs /\ args \in {<<>>, Command} /\ child = NoChild
     \/ config = DefaultConfig /\ args = <<>> /\ child = NoChild
  /\ fs \in OldFiles
  /\ before = fs

Next ==
  \/ Help
  \/ Version
  \/ NoCommand
  \/ Execute
  \/ Prepare
  \/ Persist
  \/ Clear
  \/ Publish
  \/ PrintOutput

Spec == Init /\ [][Next]_vars

----------------------------------------------------------------------------
(* One process, from its command line *)

\* the elements command lines are made of
Tokens ==
  {Flag("q"), FlagEq("q", "1"), Flag("c"), Flag("h"), Flag("help"),
   Flag("version"), Word("1"), Word("echo")}

CommandLines == SeqsUpTo(Tokens, MaxArgs)

\* the child of these runs writes three lines
ThreeLines == [spawn |-> TRUE, code |-> 0, out |-> <<"a", NL, "b", NL, "a">>, err |-> <<>>]

\* parseFlags: fill the Config from the command line
ParseFlags ==
  /\ pc = "parse"
  /\ LET r == parseFlags(DefaultConfig, argv)
     IN  /\ config' = r.config
         /\ args' = [i \in 1..Len(r.args) |-> Text(r.args[i])]
         /\ IF r.failed
            THEN errs' = Append(errs, "flag: bad flag") /\ Exit(2)
            ELSE errs' = errs /\ Goto("main")
  /\ UNCHANGED <<argv, child, output, fullOutput, fs, before, clipboard, echo,
                 diag, calls, now, runs>>

InitArgs ==
  /\ argv \in CommandLines
  /\ pc = "parse"
  /\ config = DefaultConfig
  /\ args = <<>>
  /\ child = ThreeLines
  /\ output = <<>>
  /\ fullOutput = <<>>
  /\ clipboard = OldClip
  /\ echo = <<>>
  /\ diag = <<>>
  /\ errs = <<>>
  /\ exitCode = -1
  /\ calls = <<>>
  /\ now = 1
  /\ runs = 1
  /\ fs = [p \in Paths |-> NoFile]
  /\ before = fs

NextArgs == ParseFlags \/ Next

SpecArgs == InitArgs /\ [][NextArgs]_vars

----------------------------------------------------------------------------
(* Processes one after the other on the same files and clipboard *)

\* the settings that decide what is written where
LogConfigs ==
  [headLines : {0}, tailLines : {0}, quietLines : {0}, quiet : {FALSE},
   file : {"", OtherFile}, clear : BOOLEAN, stderr : {FALSE}, append : BOOLEAN,
   noClipboard : BOOLEAN, verbose : {FALSE}, noTemp : BOOLEAN, raw : {FALSE},
   delay : {0}, trim : {FALSE}, help : {FALSE}, showVersion : {FALSE}]

LogChildren ==
  {NoChild,
   [spawn |-> TRUE, code |-> 0, out |-> <<"a", NL>>, err |-> <<>>],
   [spawn |-> TRUE, code |-> 0, out |-> <<"b">>, err |-> <<>>]}

\* the next process starts: the files and the clipboard are as the last one
\* left them
NewRun ==
  /\ pc = "exit"
  /\ runs < MaxRuns
  /\ \/ config' \in LogConfigs /\ args' = Command /\ child' \in LogChildren
     \/ config' \in EarlyConfigs /\ args' = <<>> /\ child' = NoChild
     \/ config' = DefaultConfig /\ args' = <<>> /\ child' = NoChild
  /\ pc' = "main"
  /\ output' = <<>>
  /\ fullOutput' = <<>>
  /\ echo' = <<>>
  /\ diag' = <<>>
  /\ errs' = <<>>
  /\ exitCode' = -1
  /\ calls' = <<>>
  /\ before' = fs
  /\ now' = now + 1
  /\ runs' = runs + 1
  /\ UNCHANGED <<argv, fs, clipboard>>

InitRuns ==
  /\ Fresh
  /\ \/ config \in LogConfigs /\ args = Command /\ child \in LogChildren
     \/ config \in EarlyConfigs /\ args = <<>> /\ child = NoChild
     \/ config = DefaultConfig /\ args = <<>> /\ child = NoChild
  /\ fs \in OldFiles
  /\ before = fs

NextRuns == NewRun \/ Next

SpecRuns == InitRuns /\ [][NextRuns]_vars

----------------------------------------------------------------------------
(* The line filters on their own *)

FilterTexts == SeqsUpTo({"a", "b", NL}, MaxFilterLen)

\* applyLineFilters on the text in `child.out`
ApplyFilters ==
  /\ pc = "filter"
  /\ output' = applyLineFilters(child.out, config.headLines, config.tailLines)
  /\ pc' = "filtered"
  /\ UNCHANGED <<argv, config, args, child, fullOutput, fs, before, clipboard,
                 echo, diag, errs, exitCode, calls, now, runs>>

InitFilters ==
  /\ argv = <<>>
  /\ pc = "filter"
  /\ \E h \in 0..MaxFilterCount, t \in 0..MaxFilterCount :
       config = [DefaultConfig EXCEPT !.headLines = h, !.tailLines = t]
  /\ args = Command
  /\ \E text \in FilterTexts :
       child = [spawn |-> TRUE, code |-> 0, out |-> text, err |-> <<>>]
  /\ output = <<>>
  /\ fullOutput = <<>>
  /\ clipboard = OldClip
  /\ echo = <<>>
  /\ diag = <<>>
  /\ errs = <<>>
  /\ exitCode = -1
  /\ calls = <<>>
  /\ now = 1
  /\ runs = 1
  /\ fs = [p \in Paths |-> NoFile]
  /\ before = fs

NextFilters == ApplyFilters

SpecFilters == InitFilters /\ [][NextFilters]_vars

----------------------------------------------------------------------------
(* What the claims speak of *)

FileOps == {"MkdirAll", "OpenFile", "WriteString"}
ClipOps == {"LookPath", "clear", "publish"}

\* this process has performed an operation of the set
Did(ops) == \E i \in 1..Len(calls) : calls[i].op \in ops

\* this process has performed an operation of the set, and it failed
Failed(ops) == \E i \in 1..Len(calls) : calls[i].op \in ops /\ ~calls[i].ok

Reported(msg) == \E i \in 1..Len(errs) : errs[i] = msg

\* the child has been run
Ran == Did({"exec"})

\* the file step has written the whole Record
Persisted == Did({"WriteString"}) /\ ~Failed(FileOps)

\* the clipboard operations of this process, in order
ClipCalls == SelectSeq(calls, LAMBDA c : c.op \in ClipOps)

\* the lookups that end a detection: a tool found, or the last one not found
EndsDetection(c) == c.op = "LookPath" /\ (c.ok \/ c.what = "xsel")
Detections == SelectSeq(ClipCalls, EndsDetection)

\* the text main captured from the child
Captured == executeCommand(child, config.stderr).out

\* the Record of this run for the text
RecordOf(text) == Header(now, args) \o text \o <<NL>>

\* the lines of a text, and the text of its first n lines
LinesOf(text) == Split(text, NL)
FirstLines(text, n) == Join(SubSeq(LinesOf(text), 1, n), NL)

\* what the terminal shows of a text: the text, ended by a newline
Shown(text) == IF text = <<>> \/ text[Len(text)] = NL THEN text ELSE text \o <<NL>>

\* the run went through every step and exited 0
Completed == pc = "exit" /\ exitCode = 0 /\ Ran

----------------------------------------------------------------------------
(* C1: if the child cannot be spawned, the run exits non-zero at once,     *)
(* whatever the options (-e included), and neither the file step nor any   *)
(* clipboard step happens.                                                 *)
C1_SpawnFailureIsFatal ==
  (Ran /\ ~child.spawn) =>
    /\ pc = "exit"
    /\ exitCode = 1
    /\ ~Did(FileOps)
    /\ ~Did(ClipOps)

----------------------------------------------------------------------------
(* C2: a failed file write ends the run with status 1, with no clipboard   *)
(* helper looked up or run and nothing echoed; a failed clipboard publish  *)
(* ends the run with status 1 and nothing echoed.                          *)
C2_FatalErrorAborts ==
  /\ Failed(FileOps) =>
       /\ pc = "exit" /\ exitCode = 1
       /\ ~Did(ClipOps)
       /\ echo = <<>>
  /\ (pc # "publish" /\ Did({"LookPath"})
        /\ (~Did({"publish"}) \/ Failed({"publish"}))) =>
       /\ pc = "exit" /\ exitCode = 1
       /\ echo = <<>>

\* a write has failed in a run that would have published and echoed
C2_Witness ==
  /\ Failed({"WriteString"})
  /\ ~config.noClipboard /\ config.clear /\ ~config.quiet
  /\ pc = "exit"
  /\ Len(output) > 0

----------------------------------------------------------------------------
(* C3: the quiet setting never changes what is written to the file or      *)
(* streamed to the clipboard helper: both carry the text transformed as    *)
(* with no -q. It only changes the echo: nothing when fully quiet;         *)
(* otherwise the first N lines when N > 0 and the text has more than N     *)
(* lines, and the whole text if not (ended by a newline on the terminal).  *)
C3_QuietOnlyLimitsEcho ==
  LET unquiet == [config EXCEPT !.quiet = FALSE, !.quietLines = 0]
      text == Transform(Captured, unquiet)
      path == TargetFile(config)
      n == config.quietLines
  IN  /\ Persisted =>
           fs[path].data =
             (IF config.append THEN before[path].data ELSE <<>>) \o RecordOf(text)
      /\ \A i \in 1..Len(calls) : calls[i].op = "publish" => calls[i].data = text
      /\ (Did({"publish"}) /\ ~Failed({"publish"})) => clipboard = text
      /\ Completed =>
           echo = IF config.quiet /\ n = 0 THEN <<>>
                  ELSE IF n > 0 /\ Len(LinesOf(text)) > n
                  THEN Shown(FirstLines(text, n))
                  ELSE Shown(text)

\* a run with -q=N has written and published more lines than it echoed
C3_Witness ==
  /\ Completed
  /\ config.quietLines > 0
  /\ Len(LinesOf(output)) > config.quietLines
  /\ Persisted
  /\ clipboard = output
  /\ echo = Shown(FirstLines(output, config.quietLines))
  /\ echo # Shown(output)

----------------------------------------------------------------------------
(* C4: applyLineFilters returns the join of the lines of the text, cut to  *)
(* the first H when 0 < H < their number, then cut to the last T when      *)
(* 0 < T < the number left; a count of 0 or too large changes nothing.     *)
C4_HeadThenTail ==
  pc = "filtered" =>
    LET L == LinesOf(child.out)
        H == config.headLines
        T == config.tailLines
        headed == IF 0 < H /\ H < Len(L) THEN SubSeq(L, 1, H) ELSE L
        tailed == IF 0 < T /\ T < Len(headed)
                  THEN SubSeq(headed, Len(headed) - T + 1, Len(headed))
                  ELSE headed
    IN  output = Join(tailed, NL)

\* both filters have cut a text of four lines or more
C4_Witness ==
  /\ pc = "filtered"
  /\ Len(LinesOf(child.out)) >= 4
  /\ config.headLines = 3 /\ config.tailLines = 2
  /\ Len(LinesOf(output)) = 2
  /\ output # child.out

----------------------------------------------------------------------------
(* C5: when a run has persisted its Record to a path, the file holds       *)
(* exactly that Record in overwrite mode, and in append mode what the run  *)
(* before left there followed at once by the Record; no other file is      *)
(* touched.                                                                *)
C5_OverwriteOrAppend ==
  Persisted =>
    LET path == TargetFile(config)
    IN  /\ fs[path].exists
        /\ fs[path].data =
             IF config.append THEN before[path].data \o fullOutput ELSE fullOutput
        /\ fullOutput = RecordOf(output)
        /\ \A p \in Paths \ {path} : fs[p] = before[p]

\* the second run has appended its Record to the Record of the first
C5_Witness ==
  /\ runs = 2
  /\ config.append
  /\ Persisted
  /\ pc = "exit" /\ exitCode = 0
  /\ fs[DefaultFile].data =
       Header(1, Command) \o <<"a", NL, NL>> \o Header(2, Command) \o <<"b", NL>>

----------------------------------------------------------------------------
(* C6: with -c and the clipboard enabled, a failed clear never ends the    *)
(* run: the publish is attempted after it with the whole transformed text, *)
(* only a failed publish then gives exit status 1, and the failed clear is *)
(* reported on stderr exactly when verbose is on.                          *)
ClearFailed ==
  /\ config.clear
  /\ Len(Detections) >= 1
  /\ \/ ~Detections[1].ok
     \/ Failed({"clear"})

\* the detection made for the publish is the second one after a clear
PublishFailed ==
  LET k == IF config.clear THEN 2 ELSE 1
  IN  \/ Len(Detections) >= k /\ ~Detections[k].ok
      \/ Failed({"publish"})

C6_ClearFailureNotFatal ==
  /\ ClearFailed =>
       /\ pc \in {"publish", "print", "exit"}
       /\ pc # "publish" =>
            /\ Len(Detections) = 2
            /\ Detections[2].ok =>
                 \E i \in 1..Len(calls) :
                   calls[i].op = "publish" /\ calls[i].data = Transform(Captured, config)
       /\ exitCode \in {-1, 0, 1}
       /\ exitCode = 1 => PublishFailed
       /\ pc = "exit" => exitCode = IF PublishFailed THEN 1 ELSE 0
       /\ Reported("Warning: could not clear clipboard") <=> config.verbose
  /\ Reported("Warning: could not clear clipboard") => ClearFailed /\ config.verbose

\* a run whose clear failed has published and exited 0 without a warning
C6_Witness ==
  /\ ClearFailed
  /\ ~config.verbose
  /\ Completed
  /\ clipboard = output
  /\ Len(output) > 0
  /\ errs = <<>>

----------------------------------------------------------------------------
(* C7: `cb -q N command args` with N a positive integer runs `command      *)
(* args`, echoes the first N lines and persists and publishes the whole    *)
(* text; `cb -q command args` runs `command args`, echoes nothing and      *)
(* still writes the file and the clipboard.                                *)
RestFrom(k) == [i \in 1..(Len(argv) - k + 1) |-> Text(argv[i + k - 1])]

IsCommandAt(k) == Len(argv) >= k /\ ~argv[k].dash /\ ~IsInt(argv[k].name)

C7_QuietTakesOptionalInt ==
  pc # "parse" =>
    /\ \A n \in 1..Len(IntWords) :
         (Len(argv) >= 2 /\ argv[1] = Flag("q") /\ argv[2] = Word(IntWords[n])
            /\ IsCommandAt(3)) =>
           /\ args = RestFrom(3)
           /\ config.quiet /\ config.quietLines = n
           /\ Completed =>
                /\ echo = Shown(IF Len(LinesOf(output)) > n
                                THEN FirstLines(output, n) ELSE output)
                /\ fs[DefaultFile].data = RecordOf(Transform(child.out, DefaultConfig))
                /\ clipboard = Transform(child.out, DefaultConfig)
    /\ (Len(argv) >= 1 /\ argv[1] = Flag("q") /\ IsCommandAt(2)) =>
         /\ args = RestFrom(2)
         /\ Completed =>
              /\ echo = <<>>
              /\ fs[DefaultFile].data = RecordOf(Transform(child.out, DefaultConfig))
              /\ clipboard = Transform(child.out, DefaultConfig)

----------------------------------------------------------------------------
----------------------------------------------------------------------------
(* C9: with --no-temp no directory is made and no file opened or written,  *)
(* -f and -a or not; with -n no clipboard helper is looked up or run, -c   *)
(* or not. The other stage and the echo are as they are with the stage     *)
(* enabled.                                                                *)
C9_DisabledStageInert ==
  LET text == Transform(Captured, config)
      path == TargetFile(config)
      shown == IF config.quiet /\ config.quietLines = 0 THEN <<>>
               ELSE IF config.quietLines > 0
                       /\ Len(LinesOf(text)) > config.quietLines
               THEN Shown(FirstLines(text, config.quietLines))
               ELSE Shown(text)
  IN  /\ config.noTemp => ~Did(FileOps) /\ fs = before
      /\ config.noClipboard => ~Did(ClipOps) /\ clipboard = OldClip
      /\ (Completed /\ (config.noTemp \/ config.noClipboard)) =>
           /\ echo = shown
           /\ ~config.noClipboard =>
                /\ clipboard = text
                /\ Did({"publish"}) /\ ~Failed({"publish"})
                /\ config.clear => Len(Detections) = 2
           /\ ~config.noTemp =>
                /\ Persisted
                /\ fs[path].data =
                     (IF config.append THEN before[path].data ELSE <<>>) \o RecordOf(text)

\* a run with -n -c -a -f has written its file and echoed, and no helper
\* was looked up
C9_Witness ==
  /\ Completed
  /\ config.noClipboard /\ config.clear
  /\ config.append /\ config.file = OtherFile /\ ~config.noTemp
  /\ Persisted
  /\ Len(echo) > 0
  /\ clipboard = OldClip

----------------------------------------------------------------------------
(* C10: every file operation comes before every clipboard operation, and   *)
(* the file is not restored when the publish fails: a run with both        *)
(* outputs enabled that exits 1 on a failed publish has left its Record in *)
(* the file, alone in overwrite mode and added in append mode.             *)
C10_FileKeptOnPublishFailure ==
  LET path == TargetFile(config)
  IN  /\ \A i, j \in 1..Len(calls) :
           (calls[i].op \in FileOps /\ calls[j].op \in ClipOps) => i < j
      /\ (~config.noTemp /\ Did(ClipOps)) =>
           /\ Persisted
           /\ fs[path].data =
                (IF config.append THEN before[path].data ELSE <<>>) \o fullOutput
           /\ fullOutput = RecordOf(output)
      /\ (~config.noTemp /\ ~config.noClipboard /\ pc = "exit" /\ PublishFailed) =>
           /\ exitCode = 1
           /\ fs[path] # before[path]

\* a failed publish has ended a run that had overwritten an existing file
C10_Witness ==
  /\ pc = "exit" /\ exitCode = 1
  /\ PublishFailed
  /\ ~config.noTemp /\ ~config.append
  /\ before[TargetFile(config)].exists
  /\ fs[TargetFile(config)].data = fullOutput
  /\ fs # before

====
